---------------------------- MODULE Spec2Model ----------------------------
(***************************************************************************)
(* A model of query_noirlab.py: the retrieval pipeline main() and the      *)
(* functions it calls (validate_survey, validate_radius, get_smash_field,  *)
(* get_cluster_coords, download_data, save_cat).                           *)
(*                                                                         *)
(* Text is a sequence of one-character strings, so that split, strip and   *)
(* replace are computed character by character as Python computes them.    *)
(* A radius is a record [kind, val]: kind "int" (val in whole degrees),    *)
(* "float" (val in units of 1e-7 degree), "nan" (the float NaN) or "str"   *)
(* (a value that is no number).  Coordinates are in units of 1e-6 degree.  *)
(***************************************************************************)
EXTENDS Integers, Sequences, FiniteSets, TLC

(***************************************************************************)
(* Python string operations.                                               *)
(***************************************************************************)
RECURSIVE Join(_)
Join(cs) == IF cs = <<>> THEN "" ELSE Head(cs) \o Join(Tail(cs))

\* s.replace(a, b) for one-character a and b
Replace(cs, a, b) == [i \in 1..Len(cs) |-> IF cs[i] = a THEN b ELSE cs[i]]

\* s.replace(a, '') for a one-character a
RECURSIVE Remove(_, _)
Remove(cs, a) ==
    IF cs = <<>> THEN <<>>
    ELSE IF Head(cs) = a THEN Remove(Tail(cs), a)
         ELSE <<Head(cs)>> \o Remove(Tail(cs), a)

RECURSIVE LStrip(_)
LStrip(cs) == IF cs # <<>> /\ Head(cs) = " " THEN LStrip(Tail(cs)) ELSE cs

RECURSIVE RStrip(_)
RStrip(cs) ==
    IF cs # <<>> /\ cs[Len(cs)] = " " THEN RStrip(SubSeq(cs, 1, Len(cs) - 1)) ELSE cs

\* s.strip(): leading and trailing blanks of the whole text removed
Strip(cs) == RStrip(LStrip(cs))

\* s.split(sep): the pieces between separators, each kept as it stands
RECURSIVE SplitFrom(_, _, _)
SplitFrom(cs, sep, cur) ==
    IF cs = <<>> THEN <<cur>>
    ELSE IF Head(cs) = sep THEN <<cur>> \o SplitFrom(Tail(cs), sep, <<>>)
         ELSE SplitFrom(Tail(cs), sep, Append(cur, Head(cs)))

Split(cs, sep) == SplitFrom(cs, sep, <<>>)

DigitChars == <<"0", "1", "2", "3", "4", "5", "6", "7", "8", "9">>

\* str(n) for an integer n >= 0
RECURSIVE DigitsOf(_)
DigitsOf(n) ==
    IF n < 10 THEN <<DigitChars[n + 1]>>
    ELSE Append(DigitsOf(n \div 10), DigitChars[(n % 10) + 1])

\* str(n) for any integer n
IntStr(n) == IF n < 0 THEN <<"-">> \o DigitsOf(-n) ELSE DigitsOf(n)

RECURSIVE StripZeros(_)
StripZeros(cs) ==
    IF cs # <<>> /\ cs[Len(cs)] = "0" THEN StripZeros(SubSeq(cs, 1, Len(cs) - 1)) ELSE cs

RECURSIVE ZeroPad(_, _)
ZeroPad(cs, w) == IF Len(cs) >= w THEN cs ELSE ZeroPad(<<"0">> \o cs, w)

(***************************************************************************)
(* Numbers.  Python compares an int and a float by value; every            *)
(* comparison with NaN is False.                                           *)
(***************************************************************************)
UnitsPerDegree == 10 ^ 7

\* the ceiling 1.5 of validate_radius, in units of 1e-7 degree
RadiusMax == 15000000

NoRadius == [kind |-> "none", val |-> 0]
NaN == [kind |-> "nan", val |-> 0]

\* the value of a radius in units of 1e-7 degree
Scaled(r) == IF r.kind = "int" THEN r.val * UnitsPerDegree ELSE r.val

\* isinstance(radius, (int, float))
IsNumber(r) == r.kind \in {"int", "float", "nan"}

\* radius <= 0
LeZero(r) == r.kind # "nan" /\ Scaled(r) <= 0

\* radius > 1.5
GtMax(r) == r.kind # "nan" /\ Scaled(r) > RadiusMax

\* the multiple of m nearest to v (no input of the model lies on a tie)
RoundTo(v, m) ==
    IF v >= 0 THEN ((v + m \div 2) \div m) * m
    ELSE -(((-v + m \div 2) \div m) * m)

\* repr of a float given in units of 1e-7 degree: fixed notation from 1e-4
\* upwards, exponent notation below
FloatStr(v) ==
    LET a == IF v < 0 THEN -v ELSE v
        sign == IF v < 0 THEN <<"-">> ELSE <<>>
        frac == StripZeros(ZeroPad(DigitsOf(a % UnitsPerDegree), 7))
        digs == DigitsOf(a)
        mant == StripZeros(digs)
        expo == 7 - (Len(digs) - 1)
    IN  IF a = 0 \/ a >= 1000
        THEN sign \o DigitsOf(a \div UnitsPerDegree) \o <<".">>
                  \o (IF frac = <<>> THEN <<"0">> ELSE frac)
        ELSE sign \o <<mant[1]>>
                  \o (IF Len(mant) > 1 THEN <<".">> \o Tail(mant) ELSE <<>>)
                  \o <<"e", "-">> \o ZeroPad(DigitsOf(expo), 2)

\* str(radius)
RadiusStr(r) ==
    CASE r.kind = "int" -> IntStr(r.val)
      [] r.kind = "nan" -> <<"n", "a", "n">>
      [] OTHER -> FloatStr(r.val)

\* the radius as '%.3f' writes it into the query text
Fmt3(r) ==
    IF r.kind = "nan" THEN NaN
    ELSE [kind |-> "float", val |-> RoundTo(Scaled(r), 10 ^ 4)]

\* a coordinate (units of 1e-6 degree) as '%.5f' writes it into the query text
Fmt5(c) == RoundTo(c, 10)

(***************************************************************************)
(* validate_radius                                                          *)
(***************************************************************************)
ValidateRadius(radius) ==
    IF ~IsNumber(radius)
    THEN [err |-> "TypeError", msg |-> "Radius must be a number.", value |-> NoRadius]
    ELSE IF LeZero(radius) \/ GtMax(radius)
    THEN [err |-> "ValueError", msg |-> "Radius must be > 0 and <= 1.5 deg.",
          value |-> NoRadius]
    ELSE [err |-> "", msg |-> "", value |-> radius]

(***************************************************************************)
(* The files and the service the program reads.                            *)
(***************************************************************************)
\* tables/available_surveys.txt, column col1
AvailableSurveys == {"smash_dr2", "gaia_dr3"}

\* tap_schema.tables of the service: the table names it lists for a schema
RegistryTables(schema) ==
    CASE schema = "smash_dr2" -> {"smash_dr2.object", "smash_dr2.source"}
      [] schema = "des_dr9" -> {"des_dr9.object"}
      [] OTHER -> {}

\* TAP-List-of-Fields.fits: fieldid, ra, dec
FieldTable ==
    << [fieldid |-> 7, ra |-> 123456789, dec |-> -12345678],
       [fieldid |-> 42, ra |-> 10123450, dec |-> -65543210] >>

\* Bica08-LMC.fits: Names, _RAJ2000, _DEJ2000
Bica08 ==
    << [Names |-> <<"N", "G", "C", " ", "1", "0", "4", ",", " ", "4", "7", " ", "T", "u", "c">>,
        ra |-> 6023625, dec |-> -72081278],
       [Names |-> <<"S", "L", "1", "4", "8", ",", "N", "G", "C", "1", "7", "8", "3">>,
        ra |-> 74787000, dec |-> -65987000] >>

\* Bica20-tab2.fits: Names, _RAJ2000, _DEJ2000
Bica20 ==
    << [Names |-> <<"N", "G", "C", "1", "7", "8", "3">>,
        ra |-> 74787500, dec |-> -65987500],
       [Names |-> <<"K", "3", " ", " ">>,
        ra |-> 6047000, dec |-> -72788000] >>

(***************************************************************************)
(* The settings a run is started with.                                     *)
(***************************************************************************)
IntObj(n) == [kind |-> "int", num |-> n, str |-> <<>>]
StrObj(cs) == [kind |-> "str", num |-> 0, str |-> cs]

SchemaNames == {<<"s", "m", "a", "s", "h", "_", "d", "r", "2">>,
                <<"g", "a", "i", "a", "_", "d", "r", "3">>,
                <<"d", "e", "s", "_", "d", "r", "9">>}
TableNames == {<<"o", "b", "j", "e", "c", "t">>, <<"n", "o", "s", "u", "c", "h">>}
Types == {"SMASH field", "cluster", "coords"}
Objects ==
    {IntObj(7), IntObj(42), IntObj(300),
     StrObj(<<"N", "G", "C", " ", "1", "0", "4">>),
     StrObj(<<"4", "7", " ", "T", "u", "c">>),
     StrObj(<<"N", "G", "C", "1", "7", "8", "3">>),
     StrObj(<<"K", "3">>),
     StrObj(<<"N", "G", "C", " ", "9", "9", "9", "9">>)}

\* 1.5e-06, 0.0004, 0.5, 1.2344, 1.5, 1.5000001, 2.0, 0.0, -0.5; 0, 1, 2; nan; "0.5"
Radii ==
    {[kind |-> "float", val |-> v] :
        v \in {15, 4000, 5000000, 12344000, 15000000, 15000001, 20000000, 0, -5000000}}
    \cup {[kind |-> "int", val |-> n] : n \in {0, 1, 2}}
    \cup {NaN, [kind |-> "str", val |-> 0]}

SettingsSet ==
    [schema_name : SchemaNames, table_name : TableNames, type : Types,
     object : Objects, radius : Radii]

(***************************************************************************)
(* get_smash_field and get_cluster_coords.  Each returns the tuple         *)
(* (ra, dec, fname) of the code, or the exception it raises.               *)
(***************************************************************************)
Raise(kind, text) == [err |-> kind, msg |-> text, ra |-> 0, dec |-> 0, fname |-> <<>>]

\* the suffix both resolvers give the file name: str(radius), '.' as 'p', "deg"
RadiusTag(radius) == Replace(RadiusStr(radius), ".", "p") \o <<"d", "e", "g">>

\* Faulty variant of FieldAvailable: the membership test left out.
FieldAvailableAlways(obj) == TRUE

\* int(settings['object']) in fields['fieldid']
FieldAvailable(obj) ==
    obj.num \in {FieldTable[i].fieldid : i \in DOMAIN FieldTable}

\* Faulty variant of GetSmashField: the first row of the table is taken
\* instead of the row of the requested field.
GetSmashFieldFirstRow(settings, radius) ==
    LET obj == settings.object
        line == FieldTable
    IN  IF obj.kind # "int"
        THEN Raise("ValueError", "invalid literal for int()")
        ELSE IF ~FieldAvailable(obj)
        THEN Raise("ValueError", "Field not available!")
        ELSE [err |-> "", msg |-> "", ra |-> line[1].ra, dec |-> line[1].dec,
              fname |-> <<"T", "A", "P", "_", "f">> \o IntStr(line[1].fieldid) \o <<"_">>
                        \o RadiusTag(radius)]

GetSmashField(settings, radius) ==
    LET obj == settings.object
        line == SelectSeq(FieldTable, LAMBDA r : r.fieldid = obj.num)
    IN  IF obj.kind # "int"
        THEN Raise("ValueError", "invalid literal for int()")
        ELSE IF ~FieldAvailable(obj)
        THEN Raise("ValueError", "Field not available!")
        ELSE IF Len(line) # 1
        THEN Raise("ValueError", "can only convert an array of size 1")
        ELSE [err |-> "", msg |-> "", ra |-> line[1].ra, dec |-> line[1].dec,
              fname |-> <<"T", "A", "P", "_", "f">> \o IntStr(line[1].fieldid) \o <<"_">>
                        \o RadiusTag(radius)]

\* vstack([bica_08[sel_cols], bica_20[sel_cols]])
Bicao == Bica08 \o Bica20

\* names: each row's Names, stripped as a whole and split at the commas
AliasLists == [i \in DOMAIN Bicao |-> Split(Strip(Bicao[i].Names), ",")]

\* obj_id in item, for one row's list of names
InAliases(obj, item) ==
    obj.kind = "str" /\ \E j \in DOMAIN item : item[j] = obj.str

\* Faulty variant of GetClusterCoords: of several matching rows the first
\* is taken.
GetClusterCoordsFirstMatch(settings, radius) ==
    LET obj_id == settings.object
        idx == {i \in DOMAIN Bicao : InAliases(obj_id, AliasLists[i])}
    IN  IF \A i \in DOMAIN Bicao : ~InAliases(obj_id, AliasLists[i])
        THEN Raise("NotImplementedError", "Cluster not available!")
        ELSE LET i == CHOOSE k \in idx : \A m \in idx : k <= m
             IN  [err |-> "", msg |-> "", ra |-> Bicao[i].ra, dec |-> Bicao[i].dec,
                  fname |-> Remove(obj_id.str, " ") \o <<"_">> \o RadiusTag(radius)]

GetClusterCoords(settings, radius) ==
    LET obj_id == settings.object
        idx == {i \in DOMAIN Bicao : InAliases(obj_id, AliasLists[i])}
    IN  IF \A i \in DOMAIN Bicao : ~InAliases(obj_id, AliasLists[i])
        THEN Raise("NotImplementedError", "Cluster not available!")
        ELSE IF Cardinality(idx) # 1
        THEN Raise("ValueError", "can only convert an array of size 1")
        ELSE LET i == CHOOSE k \in idx : TRUE
             IN  [err |-> "", msg |-> "", ra |-> Bicao[i].ra, dec |-> Bicao[i].dec,
                  fname |-> Remove(obj_id.str, " ") \o <<"_">> \o RadiusTag(radius)]

(***************************************************************************)
(* download_data: the query it sends, and the tables the service may       *)
(* answer with.  A table is a sequence of columns [unit, data]; a column's *)
(* unit is NoUnit (no unit set), a unit of astropy ("degree", "mag",       *)
(* "dimensionless_unscaled") or a text astropy does not recognise.         *)
(***************************************************************************)
MaxCols == 2

NoUnit == "NoUnit"

UnitTags ==
    {NoUnit, "None", "Degrees", "degrees", "DEGREES", "Magnitude",
     "degree", "mag", "dimensionless_unscaled"}

ColumnData == {<<>>, <<1>>}

Tables ==
    UNION {{[i \in 1..n |-> [unit |-> us[i], data |-> d]] : us \in [1..n -> UnitTags]} :
              n \in 0..MaxCols, d \in ColumnData}

MetadataQuery(schema) ==
    [kind |-> "metadata", db |-> schema, ra |-> 0, dec |-> 0, rad |-> NoRadius]

\* SELECT * FROM db WHERE 't' = Q3C_RADIAL_QUERY(ra, dec, %.5f, %.5f, %.3f)
DataQuery(db, RA, DEC, r) ==
    [kind |-> "data", db |-> db, ra |-> Fmt5(RA), dec |-> Fmt5(DEC), rad |-> Fmt3(r)]

(***************************************************************************)
(* save_cat                                                                *)
(***************************************************************************)
NormalizeUnit(unit) ==
    CASE unit = "None" -> "dimensionless_unscaled"
      [] unit = "Degrees" -> "degree"
      [] unit = "degrees" -> "degree"
      [] unit = "Magnitude" -> "mag"
      [] OTHER -> unit

NormalizeUnits(t) == [i \in DOMAIN t |-> [t[i] EXCEPT !.unit = NormalizeUnit(@)]]

\* Faulty variants of IsDir: the test made on the catalogs directory instead
\* of the prefix, and the test left out.
IsDirOfCatalogs(p, ds) == (p \o "/catalogs") \in ds

IsDirAlways(p, ds) == TRUE

\* os.path.isdir(p), ds the directories that exist
IsDir(p, ds) == p \in ds

CatalogsDir(prefix) == prefix \o "/catalogs"

CatalogPath(prefix, name) == prefix \o "/catalogs/" \o Join(name) \o ".fits"

(***************************************************************************)
(* The state of a run.                                                     *)
(***************************************************************************)
VARIABLES
    settings,   \* the parsed settings file
    path,       \* the directory save_cat is given as prefix
    pc,         \* the call main() is about to make; "done", "exited", "raised"
    err, msg,   \* the exception that ended the run, if one did
    net,        \* the queries sent to the service, in order
    rad,        \* the value validate_radius returned
    info,       \* the tuple the resolver returned
    table,      \* the table in memory
    table_in,   \* the table as save_cat received it
    fname,      \* the base name save_cat is given
    dirs,       \* the directories that exist
    made,       \* the directories this run created, in order
    files,      \* the catalog files that exist
    written     \* the files this run wrote, in order

vars == <<settings, path, pc, err, msg, net, rad, info, table, table_in, fname,
          dirs, made, files, written>>

\* os.path.dirname(os.path.realpath(__file__)): the directory of the script
ScriptDir == "/opt/query_noirlab"

NoInfo == Raise("", "")

Init ==
    /\ settings \in SettingsSet
    /\ path = ScriptDir
    /\ pc = "validate_survey"
    /\ err = ""
    /\ msg = ""
    /\ net = <<>>
    /\ rad = NoRadius
    /\ info = NoInfo
    /\ table = <<>>
    /\ table_in = <<>>
    /\ fname = <<>>
    /\ dirs \in {{ScriptDir}, {ScriptDir, CatalogsDir(ScriptDir)}}
    /\ made = <<>>
    /\ files = {}
    /\ written = <<>>

\* settings['schema_name'] + '.' + settings['table_name']
DataName(s) == s.schema_name \o <<".">> \o s.table_name

\* data_full_name.split('.')[0]
SchemaOf(data_full_name) == Join(Split(data_full_name, ".")[1])

Check1(data_full_name) == SchemaOf(data_full_name) \in AvailableSurveys

Check2(data_full_name) == Join(data_full_name) \in RegistryTables(SchemaOf(data_full_name))

\* Faulty variant of SurveyRejected: 'and' in place of 'or'.
SurveyRejectedIfBoth(check_1, check_2) == ~check_1 /\ ~check_2

\* if not check_1 or not check_2
SurveyRejected(check_1, check_2) == ~check_1 \/ ~check_2

(***************************************************************************)
(* main(), one action for each call it makes.  A query to the service      *)
(* either answers or raises (answers = FALSE).                             *)
(***************************************************************************)
ValidateSurvey ==
    /\ pc = "validate_survey"
    /\ \E answers \in BOOLEAN :
        LET data_name == DataName(settings) IN
        /\ net' = Append(net, MetadataQuery(SchemaOf(data_name)))
        /\ IF ~answers
           THEN pc' = "raised" /\ err' = "DALServiceError" /\ msg' = "metadata query failed"
           ELSE IF SurveyRejected(Check1(data_name), Check2(data_name))
           THEN pc' = "exited" /\ err' = "" /\ msg' = "Survey not available!"
           ELSE pc' = "validate_radius" /\ UNCHANGED <<err, msg>>
    /\ UNCHANGED <<settings, path, rad, info, table, table_in, fname, dirs, made, files, written>>

ValidateRadiusStep ==
    /\ pc = "validate_radius"
    /\ LET r == ValidateRadius(settings.radius) IN
        /\ rad' = r.value
        /\ err' = r.err
        /\ msg' = r.msg
        /\ pc' = IF r.err = "" THEN "resolve" ELSE "raised"
    /\ UNCHANGED <<settings, path, net, info, table, table_in, fname, dirs, made, files, written>>

\* the branch of main() on settings['type']
Resolve(s, radius) ==
    CASE s.type = "SMASH field" -> GetSmashField(s, radius)
      [] s.type = "cluster" -> GetClusterCoords(s, radius)
      [] OTHER -> Raise("NotImplementedError", "Type must be 'SMASH field' or 'cluster'.")

ResolveStep ==
    /\ pc = "resolve"
    /\ LET r == Resolve(settings, rad) IN
        /\ info' = r
        /\ err' = r.err
        /\ msg' = r.msg
        /\ pc' = IF r.err = "" THEN "download_data" ELSE "raised"
    /\ UNCHANGED <<settings, path, net, rad, table, table_in, fname, dirs, made, files, written>>

DownloadData ==
    /\ pc = "download_data"
    /\ net' = Append(net, DataQuery(Join(DataName(settings)), info.ra, info.dec, rad))
    /\ \E answers \in BOOLEAN, result \in Tables :
        IF ~answers
        THEN /\ pc' = "raised" /\ err' = "DALServiceError" /\ msg' = "data query failed"
             /\ UNCHANGED <<table, table_in, fname>>
        ELSE /\ pc' = "save_cat"
             /\ table' = result
             /\ table_in' = result
             /\ fname' = settings.schema_name \o <<"_">> \o info.fname
             /\ UNCHANGED <<err, msg>>
    /\ UNCHANGED <<settings, path, rad, info, dirs, made, files, written>>

SaveCat ==
    /\ pc = "save_cat"
    /\ table' = NormalizeUnits(table)
    /\ IF IsDir(path, dirs)
       THEN /\ dirs' = dirs \cup {CatalogsDir(path)}
            /\ made' = IF IsDir(CatalogsDir(path), dirs) THEN made
                       ELSE Append(made, CatalogsDir(path))
            /\ files' = files \cup {CatalogPath(path, fname)}
            /\ written' = Append(written, [file |-> CatalogPath(path, fname), table |-> table'])
       ELSE UNCHANGED <<dirs, made, files, written>>
    /\ pc' = "done"
    /\ UNCHANGED <<settings, path, err, msg, net, rad, info, table_in, fname>>

Next == ValidateSurvey \/ ValidateRadiusStep \/ ResolveStep \/ DownloadData \/ SaveCat

Spec == Init /\ [][Next]_vars

(***************************************************************************)
(* save_cat called on its own, with any table and with a prefix that may   *)
(* or may not be a directory.                                              *)
(***************************************************************************)
MissingDir == "/no/such/directory"

InitSaveCat ==
    /\ settings \in {s \in SettingsSet : /\ s.type = "coords" /\ s.radius = NaN
                                         /\ s.object = IntObj(7)
                                         /\ Check1(DataName(s)) /\ Check2(DataName(s))}
    /\ path \in {ScriptDir, MissingDir}
    /\ pc = "save_cat"
    /\ err = ""
    /\ msg = ""
    /\ net = <<>>
    /\ rad = NoRadius
    /\ info = NoInfo
    /\ table \in Tables
    /\ table_in = table
    /\ fname \in {<<"s", "m", "a", "s", "h", "_", "d", "r", "2", "_", "T", "A", "P", "_", "f", "4", "2", "_", "0", "p", "5", "d", "e", "g">>,
                  <<"g", "a", "i", "a", "_", "d", "r", "3", "_", "K", "3", "_", "1", "d", "e", "g">>}
    /\ dirs \in {{ScriptDir}, {ScriptDir, CatalogsDir(ScriptDir)}}
    /\ made = <<>>
    /\ files = {}
    /\ written = <<>>

NextSaveCat == SaveCat

SpecSaveCat == InitSaveCat /\ [][NextSaveCat]_vars

(***************************************************************************)
(* Properties.                                                             *)
(***************************************************************************)
RangeMsg == "Radius must be > 0 and <= 1.5 deg."

\* 0 < r <= 1.5, for a number r
InRange(r) == r.kind \in {"int", "float"} /\ 0 < Scaled(r) /\ Scaled(r) <= RadiusMax

\* validate_survey returned, so validate_radius has been called and has ended
RadiusValidated ==
    \/ pc \in {"resolve", "download_data", "save_cat", "done"}
    \/ pc = "raised" /\ msg # "metadata query failed"

\* the resolver has been called and has ended
ResolveRan == rad # NoRadius /\ pc # "resolve"

DataQueries == SelectSeq(net, LAMBDA q : q.kind = "data")

NothingOnDisk == made = <<>> /\ written = <<>> /\ files = {}

\* C1: a run whose radius is outside the accepted range is rejected before
\* any query is sent to the service: when the range error is raised, neither
\* the metadata query nor the data query has been issued.
C1_RadiusRejectedBeforeNetwork ==
    (pc = "raised" /\ err = "ValueError" /\ msg = RangeMsg) => net = <<>>

\* C2: for every numeric radius r, validate_radius(r) succeeds iff
\* 0 < r <= 1.5, returns r unchanged when it succeeds, and fails with the
\* range error otherwise.
C2_ValidateRadiusIffInRange ==
    (RadiusValidated /\ IsNumber(settings.radius)) =>
        /\ (rad # NoRadius) <=> InRange(settings.radius)
        /\ rad # NoRadius => rad = settings.radius
        /\ ~InRange(settings.radius) =>
              pc = "raised" /\ err = "ValueError" /\ msg = RangeMsg

\* C3: for the row whose name field is "NGC 104, 47 Tuc", requesting
\* "NGC 104" and requesting "47 Tuc" both succeed and both return that row's
\* coordinates.
C3_EveryAliasResolves ==
    LET row == Bicao[1] IN
    (/\ row.Names = <<"N", "G", "C", " ", "1", "0", "4", ",", " ", "4", "7", " ", "T", "u", "c">>
     /\ InRange(settings.radius)
     /\ ResolveRan
     /\ settings.type = "cluster"
     /\ settings.object \in {StrObj(<<"N", "G", "C", " ", "1", "0", "4">>),
                             StrObj(<<"4", "7", " ", "T", "u", "c">>)})
    => (info.err = "" /\ info.ra = row.ra /\ info.dec = row.dec)

BlankUnit == "dimensionless_unscaled"

\* the case variants of "degrees" among the units of the model
IsDegreesAnyCase(u) == u \in {"Degrees", "degrees", "DEGREES"}

\* the units the specification asks of save_cat
SpecifiedUnit(u) ==
    CASE u \in {BlankUnit, "None"} -> "dimensionless_unscaled"
      [] IsDegreesAnyCase(u) -> "degree"
      [] u = "Magnitude" -> "mag"
      [] OTHER -> u

\* C5: save_cat maps a blank unit or "None" to dimensionless, every case
\* variant of "degrees" to the degree, "Magnitude" to the magnitude, and
\* leaves every other unit (a canonical unit, or no unit at all) unchanged.
C5_UnitNormalization ==
    pc = "done" =>
        /\ Len(table) = Len(table_in)
        /\ \A i \in DOMAIN table_in : table[i].unit = SpecifiedUnit(table_in[i].unit)

SurveyPasses == Check1(DataName(settings)) /\ Check2(DataName(settings))

\* C6: the run continues past validate_survey only when the schema is in
\* the local list and schema.table is in the service's answer; when either
\* check fails the run ends there: no radius is validated, no coordinates
\* are resolved, no data query is sent and nothing is written.
C6_SurveyGate ==
    /\ (pc \in {"validate_radius", "resolve", "download_data", "save_cat", "done"})
          => SurveyPasses
    /\ (~SurveyPasses /\ pc # "validate_survey") =>
          /\ pc = "exited" \/ (pc = "raised" /\ msg = "metadata query failed")
          /\ rad = NoRadius
          /\ info = NoInfo
          /\ DataQueries = <<>>
          /\ NothingOnDisk

C6_Witness ==
    /\ pc = "exited"
    /\ Check1(DataName(settings))
    /\ ~Check2(DataName(settings))
    /\ Len(net) = 1

\* C7, as claimed: save_cat called with a directory that does not exist
\* creates no directory, writes no file and returns the table with the
\* column values and the units it had on entry.
C7_TableUnchanged ==
    (pc = "done" /\ path \notin dirs) => (NothingOnDisk /\ table = table_in)

\* the four unit texts save_cat rewrites
RewrittenUnit(u) ==
    CASE u = "None" -> "dimensionless_unscaled"
      [] u \in {"Degrees", "degrees"} -> "degree"
      [] u = "Magnitude" -> "mag"
      [] OTHER -> u

\* C7, amended: save_cat called with a directory that does not exist creates
\* no directory, writes no file and returns the table with the column values
\* it had on entry and with its units normalized.
C7_SkipKeepsNormalizedTable ==
    (pc = "done" /\ path \notin dirs) =>
        /\ NothingOnDisk
        /\ Len(table) = Len(table_in)
        /\ \A i \in DOMAIN table_in :
              /\ table[i].data = table_in[i].data
              /\ table[i].unit = RewrittenUnit(table_in[i].unit)

C7_Witness ==
    /\ pc = "done"
    /\ path \notin dirs
    /\ NothingOnDisk
    /\ \E i \in DOMAIN table_in : table_in[i].unit = "None" /\ table[i].unit # "None"



FieldIds == {FieldTable[i].fieldid : i \in DOMAIN FieldTable}

\* the rows of the combined catalog whose list of names holds the object
MatchingRows(obj) ==
    {i \in DOMAIN Bicao :
        obj.kind = "str" /\ \E j \in DOMAIN AliasLists[i] : AliasLists[i][j] = obj.str}

FieldAbsent ==
    /\ settings.type = "SMASH field"
    /\ settings.object.kind = "int"
    /\ settings.object.num \notin FieldIds

ClusterAbsent ==
    /\ settings.type = "cluster"
    /\ settings.object.kind = "str"
    /\ MatchingRows(settings.object) = {}

\* C8: a field id absent from the field table fails with the not-found
\* error, a cluster name in no row's list of names fails with the
\* not-implemented error, and in both cases no data query is ever sent and
\* no file is written.
C8_AbsentTargetAborts ==
    /\ (FieldAbsent \/ ClusterAbsent) => (DataQueries = <<>> /\ NothingOnDisk)
    /\ (FieldAbsent /\ ResolveRan) =>
          pc = "raised" /\ err = "ValueError" /\ msg = "Field not available!"
    /\ (ClusterAbsent /\ ResolveRan) =>
          pc = "raised" /\ err = "NotImplementedError" /\ msg = "Cluster not available!"

C8_Witness ==
    /\ FieldAbsent
    /\ ResolveRan
    /\ pc = "raised"
    /\ msg = "Field not available!"
    /\ Len(net) = 1

\* a SMASH-field run with a valid survey, a valid radius and a field id of
\* the table
GoodFieldRun ==
    /\ settings.type = "SMASH field"
    /\ SurveyPasses
    /\ InRange(settings.radius)
    /\ settings.object.kind = "int"
    /\ settings.object.num \in FieldIds

TheField == CHOOSE r \in {FieldTable[i] : i \in DOMAIN FieldTable} :
                r.fieldid = settings.object.num

\* <path>/catalogs/<schema_name>_TAP_f<id>_<radius, "." as "p">deg.fits
ExpectedFile ==
    path \o "/catalogs/"
         \o Join(settings.schema_name \o <<"_", "T", "A", "P", "_", "f">>
                 \o IntStr(settings.object.num) \o <<"_">>
                 \o Replace(RadiusStr(settings.radius), ".", "p") \o <<"d", "e", "g">>)
         \o ".fits"

Abs(x) == IF x < 0 THEN -x ELSE x

FileOfGoodFieldRun ==
    pc = "done" =>
        /\ Len(written) = 1
        /\ written[1].file = ExpectedFile
        /\ files = {ExpectedFile}
        /\ (/\ settings.object.num = 42
            /\ settings.radius = [kind |-> "float", val |-> 5000000]
            /\ settings.schema_name = <<"s", "m", "a", "s", "h", "_", "d", "r", "2">>)
           => written[1].file = ScriptDir \o "/catalogs/smash_dr2_TAP_f42_0p5deg.fits"

\* C9, as claimed: in such a run the data query goes to schema.table with
\* exactly the field's (ra, dec) and the validated radius, and on success
\* exactly one file is written, at ExpectedFile.
C9_ExactQueryAndFile ==
    GoodFieldRun =>
        /\ \A k \in DOMAIN DataQueries :
              /\ DataQueries[k].db = Join(DataName(settings))
              /\ DataQueries[k].ra = TheField.ra
              /\ DataQueries[k].dec = TheField.dec
              /\ DataQueries[k].rad.val = Scaled(settings.radius)
        /\ pc \in {"save_cat", "done"} => Len(DataQueries) = 1
        /\ FileOfGoodFieldRun

\* C9, amended: the query carries the field's (ra, dec) rounded to 5
\* decimals and the validated radius rounded to 3 decimals.
C9_RoundedQueryAndFile ==
    GoodFieldRun =>
        /\ \A k \in DOMAIN DataQueries :
              /\ DataQueries[k].db = Join(DataName(settings))
              /\ DataQueries[k].ra % 10 = 0
              /\ Abs(DataQueries[k].ra - TheField.ra) <= 5
              /\ DataQueries[k].dec % 10 = 0
              /\ Abs(DataQueries[k].dec - TheField.dec) <= 5
              /\ DataQueries[k].rad.kind = "float"
              /\ DataQueries[k].rad.val % (10 ^ 4) = 0
              /\ Abs(DataQueries[k].rad.val - Scaled(settings.radius)) <= 5000
        /\ pc \in {"save_cat", "done"} => (Len(DataQueries) = 1 /\ rad = settings.radius)
        /\ FileOfGoodFieldRun

C9_Witness ==
    /\ GoodFieldRun
    /\ pc = "done"
    /\ settings.object.num = 42
    /\ settings.radius = [kind |-> "float", val |-> 5000000]
    /\ written[1].file = ScriptDir \o "/catalogs/smash_dr2_TAP_f42_0p5deg.fits"
    /\ DataQueries = <<[kind |-> "data", db |-> "smash_dr2.object", ra |-> 10123450,
                        dec |-> -65543210,
                        rad |-> [kind |-> "float", val |-> 5000000]]>>

ClusterRun == settings.type = "cluster" /\ settings.object.kind = "str"

\* C10: get_cluster_coords returns coordinates only when exactly one row of
\* the combined catalog lists the requested name, and then that row's; when
\* two or more rows list it, it fails, no data query is sent and nothing is
\* written.
C10_NoSilentPick ==
    /\ (ClusterRun /\ ResolveRan /\ info.err = "") =>
          /\ Cardinality(MatchingRows(settings.object)) = 1
          /\ \A i \in MatchingRows(settings.object) :
                info.ra = Bicao[i].ra /\ info.dec = Bicao[i].dec
    /\ (ClusterRun /\ Cardinality(MatchingRows(settings.object)) >= 2) =>
          /\ DataQueries = <<>>
          /\ NothingOnDisk
          /\ ResolveRan => (pc = "raised" /\ err # "" /\ info.err # "")

C10_Witness ==
    /\ ClusterRun
    /\ ResolveRan
    /\ Cardinality(MatchingRows(settings.object)) = 2
    /\ pc = "raised"
    /\ err = "ValueError"

=============================================================================
